---------------------------- MODULE Spec2Model ----------------------------
(***************************************************************************)
(* Model of litgpt/generate/adapter.py: the function main, which resolves  *)
(* the output path, loads a model with its adapter weights, generates one  *)
(* response per row of an evaluation dataset and writes the prompt/result  *)
(* pairs to a CSV file.                                                    *)
(*                                                                         *)
(* A Python str whose characters the script inspects is a tuple of         *)
(* one-character strings.  Dictionary keys that are only looked up (model  *)
(* names, the fine-tune data tag) are TLA+ strings.  The external library  *)
(* (litgpt, lightning, pandas) is not part of the file: each call to it    *)
(* either returns or raises, the choice being nondeterministic, and every  *)
(* call is recorded in the history variable calls.                         *)
(***************************************************************************)
EXTENDS Integers, Sequences, FiniteSets, TLC

(***************************************************************************)
(* Bounds of the model                                                     *)
(***************************************************************************)
\* the dataset column read by pd.read_csv has at most MaxRows rows
MaxRows == 2
\* a decoded generator output is made of at most MaxParts pieces
MaxParts == 3

(***************************************************************************)
(* Python values                                                           *)
(***************************************************************************)
\* Python's None where a str is expected: a tuple that is no str, since its
\* single element is not a character
None == <<"None">>

\* bool(v) is False for None and for the empty str
Falsy(v) == v = None \/ v = <<>>

\* s.startswith(p)
StartsWith(s, p) == Len(s) >= Len(p) /\ SubSeq(s, 1, Len(p)) = p

\* s.find(sub, start): the lowest index >= start at which sub occurs in s,
\* 0 when there is none (indices from 1)
Find(s, sub, start) ==
    LET hits == {i \in start..(Len(s) - Len(sub) + 1) :
                    SubSeq(s, i, i + Len(sub) - 1) = sub}
    IN  IF hits = {} THEN 0 ELSE CHOOSE i \in hits : \A j \in hits : i <= j

\* sub in s
Contains(s, sub) == Find(s, sub, 1) # 0

\* s.split(sep) for a non-empty sep: the pieces between the successive
\* non-overlapping occurrences of sep, scanned from the left
RECURSIVE Split(_, _)
Split(s, sep) ==
    LET i == Find(s, sep, 1)
    IN  IF i = 0
        THEN <<s>>
        ELSE <<SubSeq(s, 1, i - 1)>> \o Split(SubSeq(s, i + Len(sep), Len(s)), sep)

\* ''.join(parts)
RECURSIVE Join(_)
Join(parts) == IF parts = <<>> THEN <<>> ELSE Head(parts) \o Join(Tail(parts))

\* zip(a, b): pairs up to the shorter of the two
Zip(a, b) ==
    LET n == IF Len(a) <= Len(b) THEN Len(a) ELSE Len(b)
    IN  [i \in 1..n |-> <<a[i], b[i]>>]

(***************************************************************************)
(* Literals of the script                                                  *)
(***************************************************************************)
INST == <<"[", "/", "I", "N", "S", "T", "]">>
FALCON == <<"F", "a", "l", "c", "o", "n", ":">>
ASSISTANT == <<"A", "S", "S", "I", "S", "T", "A", "N", "T", ":">>

\* model_split_label, lines 47-51
model_split_label ==
    ("Llama-2-7b-chat-hf" :> INST) @@ ("Llama-2-13b-chat-hf" :> INST) @@
    ("falcon-7b" :> FALCON) @@ ("mistral-7b-it" :> INST) @@
    ("beaver" :> ASSISTANT)

BNB == <<"b", "n", "b", ".">>
MIXED == <<"m", "i", "x", "e", "d">>
P16true == <<"1", "6", "-", "t", "r", "u", "e">>
Pbf16true == <<"b", "f", "1", "6", "-", "t", "r", "u", "e">>
P32true == <<"3", "2", "-", "t", "r", "u", "e">>
P16mixed == <<"1", "6", "-", "m", "i", "x", "e", "d">>
P64true == <<"6", "4", "-", "t", "r", "u", "e">>
Qnf4 == <<"b", "n", "b", ".", "n", "f", "4">>
Qgptq == <<"g", "p", "t", "q", ".", "i", "n", "t", "4">>

\* the dtype table of line 78
dtype_table ==
    (P16true :> "torch.float16") @@ (Pbf16true :> "torch.bfloat16") @@
    (P32true :> "torch.float32")

\* repeat, line 132
repeat == 1

\* the prompt-length allowance added to max_new_tokens, line 92
PromptAllowance == 512

\* the status main exits with when the output path is not resolved, line 38
ExitStatus == -1

(***************************************************************************)
(* Inputs: the arguments of main, the dataset and the generator outputs    *)
(***************************************************************************)
UnknownModel == "vicuna-7b"
ModelNames == DOMAIN model_split_label \cup {UnknownModel}
Quantizes == {None, Qnf4, Qgptq}
Precisions == {None, Pbf16true, P16mixed, P64true}
MaxNewTokens == {512, 64}
TopKs == {200, 50}
Temperatures == {1, 2}
FinetuneTags == {"SA", "AOAidentity_shifting"}

\* the defaults of main's signature, lines 21-34
DefaultArgs ==
    [model_name |-> "Llama-2-7b-chat-hf", quantize |-> None, max_new_tokens |-> 512,
     top_k |-> 200, temperature |-> 1, precision |-> None,
     finetune_data_path |-> "SA", add_system_prompt |-> FALSE]

AllArgs ==
    [model_name : ModelNames, quantize : Quantizes, max_new_tokens : MaxNewTokens,
     top_k : TopKs, temperature : Temperatures, precision : Precisions,
     finetune_data_path : FinetuneTags, add_system_prompt : BOOLEAN]

\* the groups of arguments that a run changes from their defaults together:
\* those the prompt template and the split marker depend on, those the
\* precision check depends on, and those the sampling depends on
VariedTogether ==
    {{"model_name", "add_system_prompt", "finetune_data_path"},
     {"quantize", "precision"},
     {"top_k", "temperature", "max_new_tokens"}}

ArgSpace ==
    {a \in AllArgs :
        \E g \in VariedTogether :
            \A f \in DOMAIN DefaultArgs : a[f] # DefaultArgs[f] => f \in g}

\* what resolve_output_file may return: a falsy value or a path
ResolvedPath == <<"o", "u", "t", ".", "c", "s", "v">>
ResolveResults == {None, <<>>, ResolvedPath}

\* what get_default_supported_precision may return
DefaultPrecisions == {Pbf16true, P16mixed}

\* the rows of the dataset column
Q1 == <<"Q", "1">>
Q2 == <<"Q", "2">>
Datasets == UNION {[1..n -> {Q1, Q2}] : n \in 0..MaxRows}

\* the decoded generator outputs: up to MaxParts pieces, each the model's
\* split marker or one character; the character is the marker's first, so
\* that a text may hold the beginning of a marker that is no marker
Pieces(label) == {label, <<Head(label)>>}

RECURSIVE TextsOf(_, _)
TextsOf(pieces, n) ==
    IF n = 0
    THEN {<<>>}
    ELSE LET shorter == TextsOf(pieces, n - 1)
         IN  shorter \cup {p \o t : p \in pieces, t \in shorter}

DecodedTexts(label) == TextsOf(Pieces(label), MaxParts)

(***************************************************************************)
(* The decisions of main                                                   *)
(***************************************************************************)
\* a variant of OutputUnresolved that tests for None alone
OutputIsNone(f) == f = None

\* line 37: not output_file
OutputUnresolved(f) == Falsy(f)

\* a variant of SplitLabelLookup that falls back on "[/INST]" for a name
\* that is no key, as model_split_label.get(model_name, "[/INST]") would
SplitLabelOrDefault(name) ==
    [found |-> TRUE,
     label |-> IF name \in DOMAIN model_split_label
               THEN model_split_label[name]
               ELSE INST]

\* line 52: model_split_label[model_name], which raises KeyError for a name
\* that is no key of the table
SplitLabelLookup(name) ==
    IF name \in DOMAIN model_split_label
    THEN [found |-> TRUE, label |-> model_split_label[name]]
    ELSE [found |-> FALSE, label |-> None]

\* line 72: precision or get_default_supported_precision(training=False)
NeedsDefaultPrecision(p) == Falsy(p)

\* a variant of UsesBnb without the startswith test
AnyQuantize(q) == q # None

\* line 75: quantize is not None and quantize.startswith("bnb.")
UsesBnb(q) == q # None /\ StartsWith(q, BNB)

\* line 76: "mixed" in precision
MixedPrecision(p) == Contains(p, MIXED)

\* line 79: quantize[4:]
BnbMode(q) == SubSeq(q, 5, Len(q))

\* line 92: max_returned_tokens = 512 + max_new_tokens
MaxReturnedTokens(max_new_tokens) == PromptAllowance + max_new_tokens

\* a variant of HasNext that stops one row early
HasNextButLast(ds, i) == i < Len(ds) - 1

\* line 124: the for loop has a next row
HasNext(ds, i) == i < Len(ds)

\* a variant of AddSysPrefix with the first branch alone
AlwaysSysPrefix(finetune_data_path, add_system_prompt) == TRUE

\* lines 125-128: the add_sys_prefix argument of apply_prompt_template
AddSysPrefix(finetune_data_path, add_system_prompt) ==
    IF finetune_data_path = "AOAidentity_shifting" THEN TRUE ELSE add_system_prompt

\* a variant of HasNextRepeat that takes one value more
HasNextRepeatAgain(k) == k < repeat + 1

\* line 133: range(repeat) has a next value
HasNextRepeat(k) == k < repeat

\* line 134: the keyword arguments of the call of generate
GenerateKwargs(temperature, top_k) ==
    [temperature |-> temperature, eos_id |-> "tokenizer.eos_id"]

\* a variant of Truncate that keeps a text without the marker whole
TruncateKeepsUnmarked(text, label) ==
    IF Contains(text, label) THEN Join(Tail(Split(text, label))) ELSE text

\* line 137: ''.join(map(str, output.split(split_label)[1:]))
Truncate(text, label) == Join(Tail(Split(text, label)))

\* a variant of SaveRows with the two columns exchanged
SaveRowsSwapped(sources, predicted) ==
    LET z == Zip(sources, predicted)
    IN  [i \in 1..Len(z) |-> [prompts |-> z[i][2], results |-> z[i][1]]]

\* lines 141-149: the rows of the data frame
SaveRows(sources, predicted) ==
    LET z == Zip(sources, predicted)
    IN  [i \in 1..Len(z) |-> [prompts |-> z[i][1], results |-> z[i][2]]]

(***************************************************************************)
(* State                                                                   *)
(***************************************************************************)
VARIABLES
    pc,                  \* the statement main executes next
    args,                \* the arguments main was called with
    precision,           \* the local precision, reassigned on lines 72 and 80
    output_file,         \* the local output_file, reassigned on line 36
    split_label,         \* line 52
    plugins,             \* lines 74 and 79
    max_returned_tokens, \* line 92
    dataset,             \* datasetpd[column_name], line 121
    it,                  \* the number of rows the for loop of line 124 has taken
    prompt,              \* the loop variable of line 124
    TEMPLATE,            \* lines 126 and 128
    rep,                 \* the number of values the loop of line 133 has taken
    output,              \* lines 136 and 137
    predicted_sequences, \* line 122
    sources_sequences,   \* line 123
    csv_files,           \* the files df.to_csv has written, line 150
    exit_status,         \* the statuses exit() was called with, line 38
    error,               \* the exception that ended main
    calls,               \* history: the external calls made, in order
    template_calls,      \* history: the arguments of each apply_prompt_template
    generate_calls,      \* history: the arguments of each generate
    decoded,             \* history: what tokenizer.decode returned for the row
                         \* the loop body is at, None outside the body
    generated            \* history: the row and the result of each line 137

vars ==
    <<pc, args, precision, output_file, split_label, plugins, max_returned_tokens,
      dataset, it, prompt, TEMPLATE, rep, output, predicted_sequences,
      sources_sequences, csv_files, exit_status, error, calls, template_calls,
      generate_calls, decoded, generated>>

setupVars == <<precision, output_file, split_label, plugins, max_returned_tokens>>
loopVars == <<dataset, it, prompt, TEMPLATE, rep, output, decoded>>
resultVars == <<predicted_sequences, sources_sequences, csv_files, exit_status>>
logVars == <<template_calls, generate_calls, generated>>

NoError == [type |-> "none", at |-> "none"]
NoPlugins == [mode |-> None, dtype |-> "None"]
NoTemplate == [text |-> None, model_name |-> "None", add_sys_prefix |-> FALSE,
               finetune_dataname |-> "None"]

\* the external calls ext are made in order and all return
Returns(ext) == calls' = calls \o ext /\ error' = error

\* the external calls ext are made in order and the k-th raises
Raises(ext, k) ==
    /\ calls' = calls \o SubSeq(ext, 1, k)
    /\ error' = [type |-> "Exception", at |-> ext[k]]
    /\ pc' = "failed"

\* main raises an exception of its own
RaisesOwn(type, at) ==
    /\ error' = [type |-> type, at |-> at]
    /\ pc' = "failed"
    /\ UNCHANGED calls

Init ==
    /\ pc = "resolve_output_file"
    /\ args \in ArgSpace
    /\ precision = args.precision
    /\ output_file = <<"i", "n", "f", ".", "c", "s", "v">>
    /\ split_label = None
    /\ plugins = NoPlugins
    /\ max_returned_tokens = 0
    /\ dataset = <<>>
    /\ it = 0
    /\ prompt = None
    /\ TEMPLATE = NoTemplate
    /\ rep = 0
    /\ output = None
    /\ predicted_sequences = <<>>
    /\ sources_sequences = <<>>
    /\ csv_files = <<>>
    /\ exit_status = <<>>
    /\ error = NoError
    /\ calls = <<>>
    /\ template_calls = <<>>
    /\ generate_calls = <<>>
    /\ decoded = None
    /\ generated = <<>>

(***************************************************************************)
(* Set-up, lines 36-123                                                    *)
(***************************************************************************)
\* lines 36-39
ResolveOutputFile ==
    /\ pc = "resolve_output_file"
    /\ \/ /\ \E f \in ResolveResults :
                /\ output_file' = f
                /\ IF OutputUnresolved(f)
                   THEN pc' = "exited" /\ exit_status' = <<ExitStatus>>
                   ELSE pc' = "load_base_config" /\ UNCHANGED exit_status
          /\ Returns(<<"resolve_output_file">>)
       \/ /\ Raises(<<"resolve_output_file">>, 1)
          /\ UNCHANGED <<output_file, exit_status>>
    /\ UNCHANGED <<args, precision, split_label, plugins, max_returned_tokens,
                   loopVars, predicted_sequences, sources_sequences, csv_files,
                   logVars>>

\* lines 41-45
LoadBaseConfig ==
    /\ pc = "load_base_config"
    /\ LET ext == <<"load_config", "get_model_path">>
       IN  \/ Returns(ext) /\ pc' = "split_label"
           \/ \E k \in 1..Len(ext) : Raises(ext, k)
    /\ UNCHANGED <<args, setupVars, loopVars, resultVars, logVars>>

\* lines 47-52
LookupSplitLabel ==
    /\ pc = "split_label"
    /\ IF SplitLabelLookup(args.model_name).found
       THEN /\ split_label' = SplitLabelLookup(args.model_name).label
            /\ pc' = "precision"
            /\ UNCHANGED <<calls, error>>
       ELSE /\ RaisesOwn("KeyError", "model_split_label")
            /\ UNCHANGED split_label
    /\ UNCHANGED <<args, precision, output_file, plugins, max_returned_tokens,
                   loopVars, resultVars, logVars>>

\* line 72
ResolvePrecision ==
    /\ pc = "precision"
    /\ IF NeedsDefaultPrecision(precision)
       THEN LET ext == <<"get_default_supported_precision">>
            IN  \/ /\ \E p \in DefaultPrecisions : precision' = p
                   /\ Returns(ext)
                   /\ pc' = "quantize"
                \/ Raises(ext, 1) /\ UNCHANGED precision
       ELSE /\ pc' = "quantize"
            /\ UNCHANGED <<precision, calls, error>>
    /\ UNCHANGED <<args, output_file, split_label, plugins, max_returned_tokens,
                   loopVars, resultVars, logVars>>

\* lines 74-80
Quantize ==
    /\ pc = "quantize"
    /\ IF UsesBnb(args.quantize)
       THEN IF MixedPrecision(precision)
            THEN /\ RaisesOwn("ValueError", "quantize")
                 /\ UNCHANGED <<precision, plugins>>
            ELSE IF precision \notin DOMAIN dtype_table
            THEN /\ RaisesOwn("KeyError", "dtype")
                 /\ UNCHANGED <<precision, plugins>>
            ELSE LET ext == <<"BitsandbytesPrecision">>
                 IN  \/ /\ plugins' = [mode |-> BnbMode(args.quantize),
                                       dtype |-> dtype_table[precision]]
                        /\ precision' = None
                        /\ Returns(ext)
                        /\ pc' = "fabric"
                     \/ Raises(ext, 1) /\ UNCHANGED <<precision, plugins>>
       ELSE /\ pc' = "fabric"
            /\ UNCHANGED <<precision, plugins, calls, error>>
    /\ UNCHANGED <<args, output_file, split_label, max_returned_tokens,
                   loopVars, resultVars, logVars>>

\* lines 82-83
CreateFabric ==
    /\ pc = "fabric"
    /\ LET ext == <<"Fabric", "fabric.launch">>
       IN  \/ Returns(ext) /\ pc' = "tokenizer"
           \/ \E k \in 1..Len(ext) : Raises(ext, k)
    /\ UNCHANGED <<args, setupVars, loopVars, resultVars, logVars>>

\* lines 85-95
LoadTokenizer ==
    /\ pc = "tokenizer"
    /\ LET ext == <<"check_valid_checkpoint_dir", "Config.from_file", "Tokenizer">>
       IN  \/ /\ Returns(ext)
              /\ max_returned_tokens' = MaxReturnedTokens(args.max_new_tokens)
              /\ pc' = "init_module"
           \/ /\ \E k \in 1..Len(ext) : Raises(ext, k)
              /\ UNCHANGED max_returned_tokens
    /\ UNCHANGED <<args, precision, output_file, split_label, plugins,
                   loopVars, resultVars, logVars>>

\* lines 96-99
InstantiateModel ==
    /\ pc = "init_module"
    /\ LET ext == <<"GPT">>
       IN  \/ Returns(ext) /\ pc' = "kv_cache"
           \/ Raises(ext, 1)
    /\ UNCHANGED <<args, setupVars, loopVars, resultVars, logVars>>

\* lines 100-105
SetKvCache ==
    /\ pc = "kv_cache"
    /\ LET ext == <<"set_kv_cache", "model.eval">>
       IN  \/ Returns(ext) /\ pc' = "load_weights"
           \/ \E k \in 1..Len(ext) : Raises(ext, k)
    /\ UNCHANGED <<args, setupVars, loopVars, resultVars, logVars>>

\* lines 106-116
LoadWeights ==
    /\ pc = "load_weights"
    /\ LET ext == <<"lazy_load", "lazy_load", "load_state_dict", "fabric.setup">>
       IN  \/ Returns(ext) /\ pc' = "load_dataset"
           \/ \E k \in 1..Len(ext) : Raises(ext, k)
    /\ UNCHANGED <<args, setupVars, loopVars, resultVars, logVars>>

\* lines 118-123, and the column taken from the data frame on line 124
LoadDataset ==
    /\ pc = "load_dataset"
    /\ LET ext == <<"seed_everything", "load_config", "get_dataset_info", "read_csv",
                    "datasetpd.__getitem__">>
       IN  \/ /\ Returns(ext)
              /\ \E ds \in Datasets : dataset' = ds
              /\ pc' = "for"
           \/ /\ \E k \in 1..Len(ext) : Raises(ext, k)
              /\ UNCHANGED dataset
    /\ predicted_sequences' = <<>>
    /\ sources_sequences' = <<>>
    /\ UNCHANGED <<args, setupVars, it, prompt, TEMPLATE, rep, output, decoded,
                   csv_files, exit_status, logVars>>

(***************************************************************************)
(* The generation loop, lines 124-139                                      *)
(***************************************************************************)
\* line 124
ForNext ==
    /\ pc = "for"
    /\ IF HasNext(dataset, it)
       THEN /\ it' = it + 1
            /\ prompt' = dataset[it + 1]
            /\ pc' = "template"
       ELSE /\ pc' = "save"
            /\ UNCHANGED <<it, prompt>>
    /\ UNCHANGED <<args, setupVars, dataset, TEMPLATE, rep, output, decoded,
                   resultVars, error, calls, logVars>>

\* lines 125-128
RenderTemplate ==
    /\ pc = "template"
    /\ LET ext == <<"apply_prompt_template">>
           call == [text |-> prompt, model_name |-> args.model_name,
                    add_sys_prefix |-> AddSysPrefix(args.finetune_data_path,
                                                    args.add_system_prompt),
                    finetune_dataname |-> args.finetune_data_path]
       IN  /\ template_calls' = Append(template_calls, call)
           /\ \/ Returns(ext) /\ TEMPLATE' = call /\ pc' = "encode"
              \/ Raises(ext, 1) /\ UNCHANGED TEMPLATE
    /\ UNCHANGED <<args, setupVars, dataset, it, prompt, rep, output, decoded,
                   resultVars, generate_calls, generated>>

\* lines 130-132
Encode ==
    /\ pc = "encode"
    /\ LET ext == <<"tokenizer.encode">>
       IN  \/ Returns(ext) /\ rep' = 0 /\ pc' = "repeat"
           \/ Raises(ext, 1) /\ UNCHANGED rep
    /\ UNCHANGED <<args, setupVars, dataset, it, prompt, TEMPLATE, output, decoded,
                   resultVars, logVars>>

\* line 133
RepeatNext ==
    /\ pc = "repeat"
    /\ IF HasNextRepeat(rep)
       THEN rep' = rep + 1 /\ pc' = "generate" /\ UNCHANGED decoded
       ELSE pc' = "for" /\ decoded' = None /\ UNCHANGED rep
    /\ UNCHANGED <<args, setupVars, dataset, it, prompt, TEMPLATE, output,
                   resultVars, error, calls, logVars>>

\* line 134
Generate ==
    /\ pc = "generate"
    /\ LET ext == <<"generate">>
           call == [max_returned_tokens |-> max_returned_tokens,
                    kwargs |-> GenerateKwargs(args.temperature, args.top_k),
                    row |-> it,
                    results_so_far |-> Len(predicted_sequences)]
       IN  /\ generate_calls' = Append(generate_calls, call)
           /\ \/ Returns(ext) /\ pc' = "decode"
              \/ Raises(ext, 1)
    /\ UNCHANGED <<args, setupVars, loopVars, resultVars, template_calls,
                   generated>>

\* line 136
Decode ==
    /\ pc = "decode"
    /\ LET ext == <<"tokenizer.decode">>
       IN  \/ /\ \E text \in DecodedTexts(split_label) :
                    output' = text /\ decoded' = text
              /\ Returns(ext)
              /\ pc' = "truncate"
           \/ Raises(ext, 1) /\ UNCHANGED <<output, decoded>>
    /\ UNCHANGED <<args, setupVars, dataset, it, prompt, TEMPLATE, rep,
                   resultVars, logVars>>

\* line 137
TruncateOutput ==
    /\ pc = "truncate"
    /\ output' = Truncate(output, split_label)
    /\ generated' = Append(generated, [row |-> it, result |-> output'])
    /\ pc' = "append_predicted"
    /\ UNCHANGED <<args, setupVars, dataset, it, prompt, TEMPLATE, rep, decoded,
                   resultVars, error, calls, template_calls, generate_calls>>

\* line 138
AppendPredicted ==
    /\ pc = "append_predicted"
    /\ predicted_sequences' = Append(predicted_sequences, output)
    /\ pc' = "append_source"
    /\ UNCHANGED <<args, setupVars, loopVars, sources_sequences, csv_files,
                   exit_status, error, calls, logVars>>

\* line 139
AppendSource ==
    /\ pc = "append_source"
    /\ sources_sequences' = Append(sources_sequences, prompt)
    /\ pc' = "repeat"
    /\ UNCHANGED <<args, setupVars, loopVars, predicted_sequences, csv_files, exit_status, error, calls,
                   logVars>>

(***************************************************************************)
(* Result persistence, lines 140-155                                       *)
(***************************************************************************)
save_inference_results ==
    /\ pc = "save"
    /\ LET ext == <<"DataFrame", "to_csv">>
       IN  \/ /\ csv_files' =
                    Append(csv_files, SaveRows(sources_sequences, predicted_sequences))
              /\ Returns(ext)
              /\ pc' = "done"
           \/ /\ \E k \in 1..Len(ext) : Raises(ext, k)
              /\ UNCHANGED csv_files
    /\ UNCHANGED <<args, setupVars, loopVars, predicted_sequences,
                   sources_sequences, exit_status, logVars>>

Next ==
    \/ ResolveOutputFile
    \/ LoadBaseConfig
    \/ LookupSplitLabel
    \/ ResolvePrecision
    \/ Quantize
    \/ CreateFabric
    \/ LoadTokenizer
    \/ InstantiateModel
    \/ SetKvCache
    \/ LoadWeights
    \/ LoadDataset
    \/ ForNext
    \/ RenderTemplate
    \/ Encode
    \/ RepeatNext
    \/ Generate
    \/ Decode
    \/ TruncateOutput
    \/ AppendPredicted
    \/ AppendSource
    \/ save_inference_results

Spec == Init /\ [][Next]_vars

(***************************************************************************)
(* Vocabulary of the properties                                            *)
(***************************************************************************)
\* the number of times the external routine name has been called
Count(name) == Len(SelectSeq(calls, LAMBDA c : c = name))

Called(name) == \E i \in DOMAIN calls : calls[i] = name

\* the statements of the loop of lines 124-139
LoopPcs ==
    {"for", "template", "encode", "repeat", "generate", "decode", "truncate",
     "append_predicted", "append_source"}

\* the number of rows whose loop body has run to its end
RowsProcessed ==
    IF \/ pc \in {"template", "encode", "generate", "decode", "truncate",
                  "append_predicted", "append_source"}
       \/ (pc = "repeat" /\ rep = 0)
    THEN it - 1
    ELSE it

\* the external routines that construct the model, set up its KV cache and
\* load its weights
LoadingCalls == {"GPT", "set_kv_cache", "lazy_load", "load_state_dict"}

LoadingOrGenerate == LoadingCalls \cup {"generate"}

\* the statements main reaches once the weights are loaded and the dataset
\* is read
AfterLoading == LoopPcs \cup {"save", "done"}

\* the model constructed once, its KV cache set up once, the base and the
\* adapter checkpoint read once each and the weights loaded once
LoadingOnce == <<"GPT", "set_kv_cache", "lazy_load", "lazy_load", "load_state_dict">>

\* the external routines a row of the loop calls
RowSteps == {"apply_prompt_template", "tokenizer.encode", "generate", "tokenizer.decode"}

\* result is what follows some occurrence of label in text
FollowsMarker(text, label, result) ==
    \E i \in 1..(Len(text) - Len(label) + 1) :
        /\ SubSeq(text, i, i + Len(label) - 1) = label
        /\ result = SubSeq(text, i + Len(label), Len(text))

\* the CSV written holds one record per dataset row, in order, each the raw
\* text of the row with the result generated for that row
RecordsMatchDataset ==
    /\ Len(csv_files) = 1
    /\ Len(csv_files[1]) = Len(dataset)
    /\ \A i \in DOMAIN csv_files[1] :
          /\ csv_files[1][i].prompts = dataset[i]
          /\ generated[i].row = i
          /\ csv_files[1][i].results = generated[i].result

\* the two accumulating sequences hold the rows in dataset order, each
\* result being the one generated for its row
SequencesFollowDataset ==
    /\ \A i \in DOMAIN sources_sequences : sources_sequences[i] = dataset[i]
    /\ \A i \in DOMAIN predicted_sequences :
          /\ generated[i].row = i
          /\ predicted_sequences[i] = generated[i].result

(***************************************************************************)
(* C1                                                                      *)
(***************************************************************************)
\* C1, as stated: a completed run writes one record per dataset row, the
\* i-th holding the raw text of row i and the result generated for row i,
\* and at every point of the loop sources_sequences and predicted_sequences
\* have the same length, the number of rows processed so far.
C1_EqualLengthEverywhere ==
    /\ pc = "done" => RecordsMatchDataset
    /\ SequencesFollowDataset
    /\ pc \in LoopPcs =>
          /\ Len(sources_sequences) = Len(predicted_sequences)
          /\ Len(sources_sequences) = RowsProcessed

\* C1, amended: a completed run writes one record per dataset row, the i-th
\* holding the raw text of row i and the result generated for row i; at
\* every point of the loop except between the appends of lines 138 and 139
\* the two sequences have the same length, the number of rows processed so
\* far, and between the two appends predicted_sequences is one longer.
C1_OneRecordPerRow ==
    /\ pc = "done" => RecordsMatchDataset
    /\ SequencesFollowDataset
    /\ pc \in LoopPcs => Len(sources_sequences) = RowsProcessed
    /\ pc \in LoopPcs \ {"append_source"} =>
          Len(predicted_sequences) = Len(sources_sequences)
    /\ pc = "append_source" =>
          Len(predicted_sequences) = Len(sources_sequences) + 1

C1_Witness ==
    /\ pc = "done"
    /\ Len(dataset) >= 2
    /\ dataset[1] # dataset[2]
    /\ csv_files[1][1].results # csv_files[1][2].results

(***************************************************************************)
(* C2                                                                      *)
(***************************************************************************)
\* C2, as stated: when the decoded output of a row holds the model's split
\* marker, once or several times, the stored result is the text that
\* follows the marker, with nothing else deleted from it.
C2_ResultFollowsMarker ==
    (pc \in {"append_source", "repeat"} /\ decoded # None
        /\ Contains(decoded, split_label))
    => FollowsMarker(decoded, split_label,
                     predicted_sequences[Len(predicted_sequences)])

(***************************************************************************)
(* C3                                                                      *)
(***************************************************************************)
\* C3: when the decoded output of a row holds no split marker, the result
\* computed, stored and kept for the row is the empty string, and the row is
\* recorded with its source prompt, both sequences growing by one.
C3_NoMarkerGivesEmpty ==
    (decoded # None /\ ~Contains(decoded, split_label)) =>
        /\ pc = "append_predicted" => output = <<>>
        /\ pc = "append_source" =>
              predicted_sequences[Len(predicted_sequences)] = <<>>
        /\ pc = "repeat" =>
              /\ Len(predicted_sequences) = it
              /\ Len(sources_sequences) = it
              /\ predicted_sequences[it] = <<>>
              /\ sources_sequences[it] = dataset[it]

C3_Witness ==
    /\ pc = "repeat"
    /\ decoded # None
    /\ decoded # <<>>
    /\ ~Contains(decoded, split_label)
    /\ predicted_sequences[it] = <<>>
    /\ sources_sequences[it] = dataset[it]

(***************************************************************************)
(* C4                                                                      *)
(***************************************************************************)
\* C4: once resolve_output_file has returned a falsy value, main has exited
\* with status -1 and nothing but resolve_output_file has been called: no
\* config file read, no model, tokenizer or checkpoint loaded, no row
\* rendered or generated, no CSV written; main exits nowhere else.
C4_UnresolvedOutputExits ==
    /\ (pc # "resolve_output_file" /\ error = NoError /\ Falsy(output_file)) =>
          /\ pc = "exited"
          /\ exit_status = <<-1>>
          /\ calls = <<"resolve_output_file">>
          /\ template_calls = <<>>
          /\ generate_calls = <<>>
          /\ csv_files = <<>>
    /\ (pc = "exited" \/ exit_status # <<>>) =>
          (pc = "exited" /\ Falsy(output_file) /\ exit_status = <<-1>>)

C4_Witness ==
    /\ pc = "exited"
    /\ output_file = <<>>
    /\ exit_status = <<-1>>
    /\ calls = <<"resolve_output_file">>

(***************************************************************************)
(* C5                                                                      *)
(***************************************************************************)
\* C5: for a model name that is no key of the split-marker table, main never
\* gets past the lookup of line 52: a run in which the output path and the
\* model path were obtained ends with KeyError on the split-marker table,
\* and no Fabric or model is created, no weights or dataset are loaded, no
\* row is generated and no CSV is written.
C5_UnknownModelFailsAtLookup ==
    args.model_name \notin
        {"Llama-2-7b-chat-hf", "Llama-2-13b-chat-hf", "falcon-7b", "mistral-7b-it",
         "beaver"}
    => /\ pc \in {"resolve_output_file", "load_base_config", "split_label",
                  "exited", "failed"}
       /\ \A n \in {"Fabric", "Tokenizer", "GPT", "set_kv_cache", "lazy_load",
                    "load_state_dict", "read_csv", "generate", "to_csv"} :
             ~Called(n)
       /\ generate_calls = <<>>
       /\ csv_files = <<>>
       /\ (pc = "failed" /\ calls = <<"resolve_output_file", "load_config",
                                      "get_model_path">>
              /\ error.at # "get_model_path")
          => error = [type |-> "KeyError", at |-> "model_split_label"]

C5_Witness ==
    /\ args.model_name = UnknownModel
    /\ pc = "failed"
    /\ error = [type |-> "KeyError", at |-> "model_split_label"]
    /\ calls = <<"resolve_output_file", "load_config", "get_model_path">>

(***************************************************************************)
(* C6                                                                      *)
(***************************************************************************)
\* C6: the step of lines 74-80 raises ValueError exactly when quantize is
\* set and starts with "bnb." and the precision in force, given or default,
\* contains "mixed"; no other step raises it; and when it is raised no
\* Fabric has been created, no model constructed and no weights loaded.
C6_QuantizeValidation ==
    /\ [](error.type = "ValueError" =>
             /\ pc = "failed"
             /\ error.at = "quantize"
             /\ args.quantize # None
             /\ StartsWith(args.quantize, BNB)
             /\ Contains(precision, MIXED)
             /\ \A n \in {"Fabric", "GPT", "set_kv_cache", "lazy_load",
                          "load_state_dict"} : ~Called(n))
    /\ [][/\ pc = "quantize" =>
                ((error'.type = "ValueError") <=>
                    (/\ args.quantize # None
                     /\ StartsWith(args.quantize, BNB)
                     /\ Contains(precision, MIXED)))
          /\ pc # "quantize" => error'.type # "ValueError"]_vars

C6_Witness ==
    /\ pc = "failed"
    /\ error.type = "ValueError"
    /\ args.quantize = Qnf4
    /\ args.precision = P16mixed

(***************************************************************************)
(* C7                                                                      *)
(***************************************************************************)
\* C7, as stated: for every row and every fine-tune data tag, the
\* add_sys_prefix argument of apply_prompt_template is the add_system_prompt
\* flag.
C7_PrefixIsFlag ==
    \A i \in DOMAIN template_calls :
        template_calls[i].add_sys_prefix = args.add_system_prompt

\* C7, amended: for every row, apply_prompt_template gets the row's text,
\* the model name and the fine-tune data tag; its add_sys_prefix argument
\* is the add_system_prompt flag when the tag is not AOAidentity_shifting,
\* and True whatever the flag when the tag is AOAidentity_shifting.
C7_PrefixIsFlagUnlessAOA ==
    \A i \in DOMAIN template_calls :
        /\ template_calls[i].text = dataset[i]
        /\ template_calls[i].model_name = args.model_name
        /\ template_calls[i].finetune_dataname = args.finetune_data_path
        /\ args.finetune_data_path # "AOAidentity_shifting" =>
              template_calls[i].add_sys_prefix = args.add_system_prompt
        /\ args.finetune_data_path = "AOAidentity_shifting" =>
              template_calls[i].add_sys_prefix = TRUE

C7_Witness ==
    /\ Len(template_calls) >= 2
    /\ args.finetune_data_path = "AOAidentity_shifting"
    /\ ~args.add_system_prompt
    /\ template_calls[2].add_sys_prefix

(***************************************************************************)
(* C8                                                                      *)
(***************************************************************************)
\* C8, as stated: every call of generate gets the temperature and the top_k
\* given to main and a token limit derived from max_new_tokens, the same
\* for every row.
C8_SamplingParametersPassed ==
    \A i \in DOMAIN generate_calls :
        /\ generate_calls[i].max_returned_tokens = 512 + args.max_new_tokens
        /\ generate_calls[i].kwargs.temperature = args.temperature
        /\ "top_k" \in DOMAIN generate_calls[i].kwargs
        /\ generate_calls[i].kwargs.top_k = args.top_k

(***************************************************************************)
(* C9                                                                      *)
(***************************************************************************)
\* C9: the CSV is written at most once, and only when every dataset row has
\* been taken, generated and recorded; an error is never recovered from, and
\* when a row's rendering, encoding, generating or decoding has raised, no
\* CSV has been written or attempted, whatever was accumulated before.
C9_WrittenOnceAtEnd ==
    /\ LET written == Count("to_csv")
       IN  /\ Len(csv_files) <= written
           /\ written <= 1
           /\ written = 1 =>
                 /\ calls[Len(calls)] = "to_csv"
                 /\ it = Len(dataset)
                 /\ Len(sources_sequences) = Len(dataset)
                 /\ Len(predicted_sequences) = Len(dataset)
                 /\ Count("generate") = Len(dataset)
    /\ csv_files # <<>> => pc = "done"
    /\ error # NoError => pc = "failed"
    /\ (pc = "failed" /\ error.at \in RowSteps) =>
          (csv_files = <<>> /\ ~Called("to_csv"))

C9_Witness ==
    /\ pc = "failed"
    /\ error.at = "generate"
    /\ Len(predicted_sequences) >= 1
    /\ Len(sources_sequences) >= 1
    /\ csv_files = <<>>

(***************************************************************************)
(* C10                                                                     *)
(***************************************************************************)
\* C10: the model is constructed, its KV cache set up and its weights
\* loaded at most once each, exactly once each and before every generate in
\* a run that reaches the loop, and never again between two rows: the calls
\* that construct, set up, load or generate are, in order, the loading
\* calls once each and then nothing but generate; generate is called once
\* per row in dataset order, the call for row i being made when exactly the
\* results of rows 1..i-1 have been appended.
C10_LoadedOnceRowsInOrder ==
    /\ LET made == SelectSeq(calls, LAMBDA c : c \in LoadingOrGenerate)
           loads == LoadingOnce
       IN  /\ Len(made) <= Len(loads) => made = SubSeq(loads, 1, Len(made))
           /\ Len(made) > Len(loads) =>
                 /\ SubSeq(made, 1, Len(loads)) = loads
                 /\ \A i \in (Len(loads) + 1)..Len(made) : made[i] = "generate"
           /\ (pc \in AfterLoading \/ generate_calls # <<>>) =>
                 Len(made) = Len(loads) + Len(generate_calls)
    /\ \A i \in DOMAIN generate_calls :
          /\ generate_calls[i].row = i
          /\ generate_calls[i].results_so_far = i - 1

C10_Witness ==
    /\ pc = "done"
    /\ Len(generate_calls) >= 2
    /\ Count("GPT") = 1
    /\ Count("load_state_dict") = 1
=============================================================================
